---------------------------- MODULE Spec2Model ----------------------------
(***************************************************************************)
(* A model of crates/bdk/src/types.rs: FeeRate (an f32 in sat/vbyte with   *)
(* its unit constructors, fee computations and subtraction), the Vbytes    *)
(* weight-to-vbyte conversion, Utxo::outpoint / Utxo::txout and the        *)
(* ordering of TransactionDetails.                                         *)
(*                                                                         *)
(* An f32 is modelled by its three IEEE-754 binary32 fields                *)
(*   [s |-> sign bit, e |-> biased exponent 0..255, f |-> fraction < 2^23] *)
(* and the arithmetic is the exact result rounded to nearest, ties to even.*)
(***************************************************************************)
EXTENDS Integers, Sequences, FiniteSets

----------------------------------------------------------------------------
(* binary32 arithmetic *)

Pow2(n) == 2 ^ n

\* 2^23: the implicit leading bit of a normal significand.
Hidden == Pow2(23)

F32(s, e, f) == [s |-> s, e |-> e, f |-> f]

IsNaN(x) == x.e = 255 /\ x.f # 0
IsInf(x) == x.e = 255 /\ x.f = 0
IsZero(x) == x.e = 0 /\ x.f = 0
IsSubnormal(x) == x.e = 0 /\ x.f # 0
IsFinite(x) == x.e < 255

\* The canonical quiet NaN the arithmetic produces.
NaN == F32(0, 255, Pow2(22))
Inf(s) == F32(s, 255, 0)
Zero(s) == F32(s, 0, 0)

\* A finite x has the value (-1)^s * Sig(x) * 2^Exp(x).
Sig(x) == IF x.e = 0 THEN x.f ELSE Hidden + x.f
Exp(x) == (IF x.e = 0 THEN 1 ELSE x.e) - 150

Xor(s, t) == IF s = t THEN 0 ELSE 1

RECURSIVE BitLen(_)
BitLen(n) == IF n = 0 THEN 0 ELSE 1 + BitLen(n \div 2)

\* The significand m at exponent q, after rounding may have carried into
\* bit 24; the result is infinite when the exponent leaves the format.
Pack(s, m, q) ==
  LET m2 == IF m = Pow2(24) THEN Hidden ELSE m
      q2 == IF m = Pow2(24) THEN q + 1 ELSE q
  IN  IF m2 < Hidden THEN F32(s, 0, m2)
      ELSE IF q2 + 150 >= 255 THEN Inf(s)
      ELSE F32(s, q2 + 150, m2 - Hidden)

\* Round (-1)^s * (m + t) * 2^q to binary32, nearest with ties to even,
\* where 0 <= m < 2^31 and t is 0 (st = FALSE) or some 0 < t < 1 (st = TRUE).
\* With st = TRUE, m must hold at least 25 bits.
Round(s, m, q, st) ==
  LET nb == BitLen(m)
      lo == -149 - q
      k == IF nb - 24 > lo THEN nb - 24 ELSE lo
  IN  IF m = 0 /\ ~st THEN Zero(s)
      ELSE IF k <= 0 THEN Pack(s, m * Pow2(-k), q + k)
      ELSE IF k >= 31 THEN Zero(s)
      ELSE LET kept == m \div Pow2(k)
               rem == m % Pow2(k)
               half == Pow2(k - 1)
               up == \/ rem > half
                     \/ rem = half /\ st
                     \/ rem = half /\ ~st /\ kept % 2 = 1
           IN  Pack(s, IF up THEN kept + 1 ELSE kept, q + k)

\* A finite non-zero x with its significand shifted up to 24 bits.
NormSig(x) == Sig(x) * Pow2(24 - BitLen(Sig(x)))
NormExp(x) == Exp(x) - (24 - BitLen(Sig(x)))

\* x * y
FMul(x, y) ==
  IF IsNaN(x) \/ IsNaN(y) THEN NaN
  ELSE IF (IsInf(x) /\ IsZero(y)) \/ (IsZero(x) /\ IsInf(y)) THEN NaN
  ELSE IF IsInf(x) \/ IsInf(y) THEN Inf(Xor(x.s, y.s))
  ELSE IF IsZero(x) \/ IsZero(y) THEN Zero(Xor(x.s, y.s))
  ELSE LET a1 == Sig(x) \div 4096
           b1 == Sig(x) % 4096
           a2 == Sig(y) \div 4096
           b2 == Sig(y) % 4096
           mid == a1 * b2 + a2 * b1
           losum == b1 * b2 + (mid % 4096) * 4096
           lo == losum % Pow2(24)
           hi == a1 * a2 + mid \div 4096 + losum \div Pow2(24)
           \* the product of the significands is hi * 2^24 + lo
           t == IF BitLen(hi) > 6 THEN BitLen(hi) - 6 ELSE 0
           m == hi * Pow2(24 - t) + lo \div Pow2(t)
       IN  Round(Xor(x.s, y.s), m, Exp(x) + Exp(y) + t, lo % Pow2(t) # 0)

\* Long division: n more quotient bits of r / d appended to q.
RECURSIVE DivBits(_, _, _, _)
DivBits(r, d, q, n) ==
  IF n = 0 THEN <<q, r>>
  ELSE IF 2 * r >= d THEN DivBits(2 * r - d, d, 2 * q + 1, n - 1)
       ELSE DivBits(2 * r, d, 2 * q, n - 1)

\* x / y
FDiv(x, y) ==
  IF IsNaN(x) \/ IsNaN(y) THEN NaN
  ELSE IF (IsInf(x) /\ IsInf(y)) \/ (IsZero(x) /\ IsZero(y)) THEN NaN
  ELSE IF IsInf(x) \/ IsZero(y) THEN Inf(Xor(x.s, y.s))
  ELSE IF IsZero(x) \/ IsInf(y) THEN Zero(Xor(x.s, y.s))
  ELSE LET n == NormSig(x)
           d == NormSig(y)
           qr == DivBits(n % d, d, n \div d, 26)
       IN  Round(Xor(x.s, y.s), qr[1], NormExp(x) - NormExp(y) - 26, qr[2] # 0)

\* |x| < |y| for finite x, y
MagLess(x, y) == x.e < y.e \/ (x.e = y.e /\ x.f < y.f)

\* x + y
FAdd(x, y) ==
  IF IsNaN(x) \/ IsNaN(y) THEN NaN
  ELSE IF IsInf(x) /\ IsInf(y) THEN (IF x.s = y.s THEN x ELSE NaN)
  ELSE IF IsInf(x) THEN x
  ELSE IF IsInf(y) THEN y
  ELSE IF IsZero(x) /\ IsZero(y) THEN Zero(IF x.s = 1 /\ y.s = 1 THEN 1 ELSE 0)
  ELSE IF IsZero(y) THEN x
  ELSE IF IsZero(x) THEN y
  ELSE LET big == IF MagLess(x, y) THEN y ELSE x
           small == IF MagLess(x, y) THEN x ELSE y
           d == Exp(big) - Exp(small)
           same == big.s = small.s
       IN  IF d <= 6 THEN
             LET A == Sig(big) * Pow2(d)
                 m == IF same THEN A + Sig(small) ELSE A - Sig(small)
             IN  IF m = 0 THEN Zero(0) ELSE Round(big.s, m, Exp(small), FALSE)
           ELSE
             LET A == Sig(big) * 64
                 sh == d - 6
                 B == IF sh >= 24 THEN 0 ELSE Sig(small) \div Pow2(sh)
                 st == IF sh >= 24 THEN TRUE ELSE Sig(small) % Pow2(sh) # 0
                 m == IF same THEN A + B
                      ELSE IF st THEN A - B - 1 ELSE A - B
             IN  Round(big.s, m, Exp(big) - 6, st)

FNeg(x) == F32(1 - x.s, x.e, x.f)

\* x - y
FSub(x, y) == IF IsNaN(x) \/ IsNaN(y) THEN NaN ELSE FAdd(x, FNeg(y))

\* x == y of IEEE-754: NaN equals nothing, the two zeros are equal.
FEq(x, y) ==
  /\ ~IsNaN(x)
  /\ ~IsNaN(y)
  /\ \/ x = y
     \/ IsZero(x) /\ IsZero(y)

\* f32::ceil
Ceil(x) ==
  IF ~IsFinite(x) \/ IsZero(x) \/ Exp(x) >= 0 THEN x
  ELSE IF Exp(x) <= -24 THEN (IF x.s = 0 THEN F32(0, 127, 0) ELSE Zero(1))
  ELSE LET ip == Sig(x) \div Pow2(-Exp(x))
           fr == Sig(x) % Pow2(-Exp(x))
       IN  IF x.s = 0 THEN Round(0, IF fr # 0 THEN ip + 1 ELSE ip, 0, FALSE)
           ELSE IF ip = 0 THEN Zero(1) ELSE Round(1, ip, 0, FALSE)

----------------------------------------------------------------------------
(* integers *)

\* A u64 is three limbs <<l2, l1, l0>> in base 2^24, l2 < 2^16:
\* the value l2 * 2^48 + l1 * 2^24 + l0.
Limb == Pow2(24)
U64Of(n) == <<0, n \div Limb, n % Limb>>
U64Max == <<Pow2(16) - 1, Limb - 1, Limb - 1>>

\* hi * 2^24 + lo (lo < 2^24) scaled by 2^q, plus a non-zero fraction when
\* st, rounded to binary32.
RoundLimbs(hi, lo, q, st) ==
  LET t == IF BitLen(hi) > 6 THEN BitLen(hi) - 6 ELSE 0
  IN  Round(0, hi * Pow2(24 - t) + lo \div Pow2(t), q + t, st \/ lo % Pow2(t) # 0)

\* `n as f32` for a u64
FromU64(n) ==
  IF n[1] = 0 THEN RoundLimbs(n[2], n[3], 0, FALSE)
  ELSE RoundLimbs(n[1], n[2], 24, n[3] # 0)

\* `n as f32` for a usize; the sizes of the model stay below 2^31.
FromUsize(n) == Round(0, n, 0, FALSE)

\* `x as u64`: truncation toward zero, saturating; NaN gives 0.
ToU64(x) ==
  IF IsNaN(x) \/ x.s = 1 THEN U64Of(0)
  ELSE IF IsInf(x) \/ Exp(x) >= 41 THEN U64Max
  ELSE IF Exp(x) <= -24 THEN U64Of(0)
  ELSE IF Exp(x) < 0 THEN U64Of(Sig(x) \div Pow2(-Exp(x)))
  ELSE LET r == Exp(x) % 24
           low == (Sig(x) % Pow2(24 - r)) * Pow2(r)
           high == Sig(x) \div Pow2(24 - r)
       IN  IF Exp(x) < 24 THEN <<0, high, low>> ELSE <<high, low, 0>>

\* `x as usize`, for the results below 2^31 that the sizes of the model give.
ToUsize(x) == LET n == ToU64(x) IN n[2] * Limb + n[3]

----------------------------------------------------------------------------
(* FeeRate *)

\* The f32 literals of the source.
F1 == F32(0, 127, 0)            \* 1.0
F4 == F32(0, 129, 0)            \* 4.0
F250 == F32(0, 134, 7995392)    \* 250.0_f32
F1000 == F32(0, 136, 7995392)   \* 1000.0_f32
F1e5 == F32(0, 143, 4411392)    \* 1e5

is_normal(x) == x.e >= 1 /\ x.e <= 254
is_sign_positive(x) == x.s = 0

\* struct FeeRate(f32): the rate is its one field.
FeeRate(value) == value

\* A constructor's outcome: ok = FALSE is the panic of an assertion, and then
\* no FeeRate exists; value is what the assertions were given.
new_checked_unsigned(value) ==
  [ok |-> is_normal(value) \/ FEq(value, Zero(0)), value |-> value]

new_checked_finite(value) ==
  [ok |-> IsFinite(value) /\ is_sign_positive(value), value |-> value]

new_checked(value) ==
  [ok |-> /\ is_normal(value) \/ FEq(value, Zero(0))
          /\ is_sign_positive(value),
   value |-> value]

from_sat_per_kwu(sat_per_kwu) == new_checked(FDiv(sat_per_kwu, F250))

from_sat_per_kvb_by_250(sat_per_kvb) == new_checked(FDiv(sat_per_kvb, F250))

from_sat_per_kvb(sat_per_kvb) == new_checked(FDiv(sat_per_kvb, F1000))

from_btc_per_kvb(btc_per_kvb) == new_checked(FMul(btc_per_kvb, F1e5))

from_sat_per_vb(sat_per_vb) == new_checked(sat_per_vb)

default_min_relay_fee == FeeRate(F1)

from_vb(fee, vbytes) ==
  LET rate == FDiv(FromU64(fee), FromUsize(vbytes))
  IN  from_sat_per_vb(rate)

\* impl Vbytes for usize
vbytes(wu) == ToUsize(Ceil(FDiv(FromUsize(wu), F4)))

from_wu(fee, wu) == from_vb(fee, vbytes(wu))

as_sat_per_vb(self) == self

sat_per_kwu(self) == FMul(self, F250)

fee_vb(self, vb) == ToU64(Ceil(FMul(as_sat_per_vb(self), FromUsize(vb))))

fee_wu(self, wu) == fee_vb(self, vbytes(wu))

\* impl Default for FeeRate
default == default_min_relay_fee

\* impl Sub for FeeRate: FeeRate(self.0 - other.0), with no assertion.
sub_checked(self, other) == new_checked(FSub(self, other))

sub(self, other) == [ok |-> TRUE, value |-> FSub(self, other)]

----------------------------------------------------------------------------
(* Utxo.  An Option is a sequence of at most one element; a TxOut is its    *)
(* value, a Transaction its list of outputs, an OutPoint a txid and a vout. *)

None == <<>>
Some(x) == <<x>>

OutPoint(txid, vout) == [txid |-> txid, vout |-> vout]
TxOut(value) == [value |-> value]
Transaction(output) == [output |-> output]

Local(outp, out, keychain, is_spent) ==
  [variant |-> "Local",
   local |-> [outpoint |-> outp, txout |-> out, keychain |-> keychain,
              is_spent |-> is_spent]]

Foreign(outp, non_witness_utxo, witness_utxo) ==
  [variant |-> "Foreign", outpoint |-> outp,
   psbt_input |-> [non_witness_utxo |-> non_witness_utxo,
                   witness_utxo |-> witness_utxo]]

outpoint(self) ==
  IF self.variant = "Local" THEN self.local.outpoint ELSE self.outpoint

\* Foreign UTXOs whose witness_utxo is consulted before non_witness_utxo.
txout_witness_first(self) ==
  IF self.variant = "Local"
  THEN [ok |-> TRUE, value |-> self.local.txout]
  ELSE IF self.psbt_input.witness_utxo # None
  THEN [ok |-> TRUE, value |-> self.psbt_input.witness_utxo[1]]
  ELSE IF self.psbt_input.non_witness_utxo # None
  THEN LET prev_tx == self.psbt_input.non_witness_utxo[1]
       IN  IF self.outpoint.vout < Len(prev_tx.output)
           THEN [ok |-> TRUE, value |-> prev_tx.output[self.outpoint.vout + 1]]
           ELSE [ok |-> FALSE, panic |-> "index out of bounds"]
  ELSE [ok |-> FALSE, panic |-> "unreachable"]

\* The TxOut returned, or the panic: indexing a Vec past its length panics.
txout(self) ==
  IF self.variant = "Local"
  THEN [ok |-> TRUE, value |-> self.local.txout]
  ELSE IF self.psbt_input.non_witness_utxo # None
  THEN LET prev_tx == self.psbt_input.non_witness_utxo[1]
       IN  IF self.outpoint.vout < Len(prev_tx.output)
           THEN [ok |-> TRUE, value |-> prev_tx.output[self.outpoint.vout + 1]]
           ELSE [ok |-> FALSE, panic |-> "index out of bounds"]
  ELSE IF self.psbt_input.witness_utxo # None
  THEN [ok |-> TRUE, value |-> self.psbt_input.witness_utxo[1]]
  ELSE [ok |-> FALSE, panic |-> "unreachable"]

----------------------------------------------------------------------------
(* TransactionDetails.  core::cmp::Ordering is "Less", "Equal", "Greater". *)

Unconfirmed == [variant |-> "Unconfirmed"]
Confirmed(height, time) ==
  [variant |-> "Confirmed", height |-> height, time |-> time]

TransactionDetails(transaction, txid, received, sent, fee, confirmation_time) ==
  [transaction |-> transaction, txid |-> txid, received |-> received,
   sent |-> sent, fee |-> fee, confirmation_time |-> confirmation_time]

\* Ord of the integers, standing for Txid and for u32 and u64.
IntCmp(x, y) == IF x < y THEN "Less" ELSE IF x = y THEN "Equal" ELSE "Greater"

\* Ordering::then_with
then_with(o, f) == IF o = "Equal" THEN f ELSE o

\* Ord of ConfirmationTime: confirmed positions by height and then time;
\* first says whether Unconfirmed orders before or after every Confirmed.
CtCmp(x, y, first) ==
  IF x.variant = "Unconfirmed" /\ y.variant = "Unconfirmed" THEN "Equal"
  ELSE IF x.variant = "Unconfirmed" THEN (IF first THEN "Less" ELSE "Greater")
  ELSE IF y.variant = "Unconfirmed" THEN (IF first THEN "Greater" ELSE "Less")
  ELSE then_with(IntCmp(x.height, y.height), IntCmp(x.time, y.time))

\* An ordering that compares the txid before the confirmation time.
cmp_txid_first(self, other, first) ==
  then_with(IntCmp(self.txid, other.txid),
            CtCmp(self.confirmation_time, other.confirmation_time, first))

\* Ord::cmp of TransactionDetails
cmp(self, other, first) ==
  then_with(CtCmp(self.confirmation_time, other.confirmation_time, first),
            IntCmp(self.txid, other.txid))

\* PartialOrd::partial_cmp of TransactionDetails
partial_cmp(self, other, first) == Some(cmp(self, other, first))

\* The derived PartialEq: every field is compared.
eq(self, other) ==
  /\ self.transaction = other.transaction
  /\ self.txid = other.txid
  /\ self.received = other.received
  /\ self.sent = other.sent
  /\ self.fee = other.fee
  /\ self.confirmation_time = other.confirmation_time

----------------------------------------------------------------------------
(* The state: a client of the module holding two FeeRate values. *)

VARIABLES
  pc,      \* "run", or "aborted" once an assertion has panicked
  a, b,    \* the two FeeRates the client holds
  asub,    \* whether a (b) is, or is a copy of, the result of a subtraction
  bsub,
  nsub,    \* the number of subtractions made
  call,    \* the last operation and its arguments
  ret,     \* what the last computation or accessor returned
  rate0,   \* the rate in sat/vbyte the client converts between unit systems
  utxo,    \* the Utxo the client holds
  ta,      \* three TransactionDetails the client holds
  tb,
  tc,
  unconfirmed_first   \* ConfirmationTime orders unconfirmed before confirmed

vars == <<pc, a, b, asub, bsub, nsub, call, ret, rate0, utxo, ta, tb, tc, unconfirmed_first>>

\* Bounds of the model.
MaxFee == 2
MaxVb == 3
MaxWu == 5
MaxSubs == 3
MaxFeeVb == 10
MaxFeeWu == 9

\* The f32 arguments the client passes.
FMax == F32(0, 254, Hidden - 1)     \* f32::MAX
FMinPos == F32(0, 1, 0)             \* f32::MIN_POSITIVE
Floats ==
  { Zero(0), Zero(1), F1, F250, F1000,
    F32(0, 110, 2606508),           \* 1e-5
    F32(0, 125, 2796203),           \* 1.0 / 3.0
    F32(0, 127, 4096),              \* 1.0 + 2^-11
    F32(0, 130, 4718592),           \* 12.5
    F32(1, 129, 2097152),           \* -5.0
    FMax, FMinPos,
    F32(0, 0, 1), F32(0, 0, Hidden - 1), F32(1, 0, 1),   \* subnormals
    NaN, F32(1, 255, 1), Inf(0), Inf(1) }

Fees == {U64Of(n) : n \in 0..MaxFee} \cup {U64Max}
VbSizes == 0..MaxVb
WuSizes == 0..MaxWu

NoCall == [op |-> "none"]

Init ==
  /\ pc = "run"
  /\ a = default
  /\ b = default
  /\ asub = FALSE
  /\ bsub = FALSE
  /\ nsub = 0
  /\ call = NoCall
  /\ ret = NoCall
  /\ rate0 = F1
  /\ utxo = None
  /\ ta = None
  /\ tb = None
  /\ tc = None
  /\ unconfirmed_first = FALSE

\* A constructor called with the arguments of c has returned r: the client
\* keeps the new FeeRate in a, or the thread has panicked.
Returned(c, r) ==
  /\ call' = c
  /\ a' = IF r.ok THEN FeeRate(r.value) ELSE a
  /\ pc' = IF r.ok THEN "run" ELSE "aborted"
  /\ UNCHANGED <<b, asub, bsub, nsub, ret, rate0, utxo, ta, tb, tc, unconfirmed_first>>

\* In each action below r is what the call returns.
FromSatPerKwu(x, r) ==
  /\ pc = "run"
  /\ nsub = 0
  /\ Returned([op |-> "from_sat_per_kwu", x |-> x], r)

FromSatPerKvb(x, r) ==
  /\ pc = "run"
  /\ nsub = 0
  /\ Returned([op |-> "from_sat_per_kvb", x |-> x], r)

FromBtcPerKvb(x, r) ==
  /\ pc = "run"
  /\ nsub = 0
  /\ Returned([op |-> "from_btc_per_kvb", x |-> x], r)

FromSatPerVb(x, r) ==
  /\ pc = "run"
  /\ nsub = 0
  /\ Returned([op |-> "from_sat_per_vb", x |-> x], r)

FromVb(fee, vb, r) ==
  /\ pc = "run"
  /\ nsub = 0
  /\ Returned([op |-> "from_vb", fee |-> fee, size |-> vb], r)

FromWu(fee, wu, r) ==
  /\ pc = "run"
  /\ nsub = 0
  /\ Returned([op |-> "from_wu", fee |-> fee, size |-> wu], r)

DefaultMinRelayFee ==
  /\ pc = "run"
  /\ nsub = 0
  /\ Returned([op |-> "default_min_relay_fee"],
              [ok |-> TRUE, value |-> default_min_relay_fee])

Default ==
  /\ pc = "run"
  /\ nsub = 0
  /\ Returned([op |-> "default"], [ok |-> TRUE, value |-> default])

\* FeeRate is Copy: let b = a.
Copy ==
  /\ pc = "run"
  /\ b' = a
  /\ bsub' = asub
  /\ call' = [op |-> "copy"]
  /\ UNCHANGED <<pc, a, asub, nsub, ret, rate0, utxo, ta, tb, tc, unconfirmed_first>>

\* The client exchanges the two values it holds.
Swap ==
  /\ pc = "run"
  /\ a' = b
  /\ b' = a
  /\ asub' = bsub
  /\ bsub' = asub
  /\ call' = [op |-> "swap"]
  /\ UNCHANGED <<pc, nsub, ret, rate0, utxo, ta, tb, tc, unconfirmed_first>>

\* a = a - b
Sub ==
  /\ pc = "run"
  /\ nsub < MaxSubs
  /\ a' = IF sub(a, b).ok THEN FeeRate(sub(a, b).value) ELSE a
  /\ pc' = IF sub(a, b).ok THEN "run" ELSE "aborted"
  /\ asub' = TRUE
  /\ nsub' = nsub + 1
  /\ call' = [op |-> "sub", lhs |-> a, rhs |-> b]
  /\ UNCHANGED <<b, bsub, ret, rate0, utxo, ta, tb, tc, unconfirmed_first>>

Next ==
  \/ \E x \in Floats : FromSatPerKwu(x, from_sat_per_kwu(x))
  \/ \E x \in Floats : FromSatPerKvb(x, from_sat_per_kvb(x))
  \/ \E x \in Floats : FromBtcPerKvb(x, from_btc_per_kvb(x))
  \/ \E x \in Floats : FromSatPerVb(x, from_sat_per_vb(x))
  \/ \E fee \in Fees, vb \in VbSizes : FromVb(fee, vb, from_vb(fee, vb))
  \/ \E fee \in Fees, wu \in WuSizes : FromWu(fee, wu, from_wu(fee, wu))
  \/ DefaultMinRelayFee
  \/ Default
  \/ Copy
  \/ Swap
  \/ Sub

Spec == Init /\ [][Next]_vars

----------------------------------------------------------------------------
(* Fee and size computations: one call on a rate the client constructed. *)

\* The rates from_sat_per_vb accepts among Floats.
Rates == {x \in Floats : from_sat_per_vb(x).ok}

\* Sizes: small ones, 2^13 + 1 vbytes, and weights just above 2^24.
FeeVbSizes == 0..MaxFeeVb \cup {Pow2(13) + 1}
FeeWuSizes == 0..MaxFeeWu \cup {Pow2(24) + i : i \in 1..4}

InitFee ==
  /\ pc = "run"
  /\ a \in Rates
  /\ b = default
  /\ asub = FALSE
  /\ bsub = FALSE
  /\ nsub = 0
  /\ call = NoCall
  /\ ret = NoCall
  /\ rate0 = F1
  /\ utxo = None
  /\ ta = None
  /\ tb = None
  /\ tc = None
  /\ unconfirmed_first = FALSE

\* wu.vbytes()
Vbytes(wu, v) ==
  /\ pc = "run"
  /\ call = NoCall
  /\ call' = [op |-> "vbytes", size |-> wu]
  /\ ret' = v
  /\ UNCHANGED <<pc, a, b, asub, bsub, nsub, rate0, utxo, ta, tb, tc, unconfirmed_first>>

\* a.fee_vb(vb)
FeeVb(vb) ==
  /\ pc = "run"
  /\ call = NoCall
  /\ call' = [op |-> "fee_vb", size |-> vb]
  /\ ret' = fee_vb(a, vb)
  /\ UNCHANGED <<pc, a, b, asub, bsub, nsub, rate0, utxo, ta, tb, tc, unconfirmed_first>>

\* a.fee_wu(wu)
FeeWu(wu) ==
  /\ pc = "run"
  /\ call = NoCall
  /\ call' = [op |-> "fee_wu", size |-> wu]
  /\ ret' = fee_wu(a, wu)
  /\ UNCHANGED <<pc, a, b, asub, bsub, nsub, rate0, utxo, ta, tb, tc, unconfirmed_first>>

\* FeeRate::from_wu(fee, wu) returning v, here for the large weights too.
RateFromWu(fee, wu, v) ==
  /\ pc = "run"
  /\ call = NoCall
  /\ Returned([op |-> "from_wu", fee |-> fee, size |-> wu], v)

NextFee ==
  \/ \E wu \in FeeWuSizes : Vbytes(wu, vbytes(wu))
  \/ \E vb \in FeeVbSizes : FeeVb(vb)
  \/ \E wu \in FeeWuSizes : FeeWu(wu)
  \/ \E fee \in Fees, wu \in FeeWuSizes : RateFromWu(fee, wu, from_wu(fee, wu))

SpecFee == InitFee /\ [][NextFee]_vars

----------------------------------------------------------------------------
(* Unit systems: the client holds a rate rate0 in sat/vbyte and constructs *)
(* the FeeRate from rate0 expressed in each unit.                          *)

InitUnits ==
  /\ pc = "run"
  /\ a = default
  /\ b = default
  /\ asub = FALSE
  /\ bsub = FALSE
  /\ nsub = 0
  /\ call = NoCall
  /\ ret = NoCall
  /\ rate0 \in Floats
  /\ utxo = None
  /\ ta = None
  /\ tb = None
  /\ tc = None
  /\ unconfirmed_first = FALSE

\* a.as_sat_per_vb()
AsSatPerVb ==
  /\ pc = "run"
  /\ ret' = [op |-> "as_sat_per_vb", value |-> as_sat_per_vb(a)]
  /\ UNCHANGED <<pc, a, b, asub, bsub, nsub, call, rate0, utxo, ta, tb, tc, unconfirmed_first>>

\* a.sat_per_kwu()
SatPerKwu ==
  /\ pc = "run"
  /\ ret' = [op |-> "sat_per_kwu", value |-> sat_per_kwu(a)]
  /\ UNCHANGED <<pc, a, b, asub, bsub, nsub, call, rate0, utxo, ta, tb, tc, unconfirmed_first>>

NextUnits ==
  \/ FromSatPerVb(rate0, from_sat_per_vb(rate0))
  \/ FromSatPerKwu(FMul(F250, rate0), from_sat_per_kwu(FMul(F250, rate0)))
  \/ FromSatPerKvb(FMul(F1000, rate0), from_sat_per_kvb(FMul(F1000, rate0)))
  \/ FromBtcPerKvb(FDiv(rate0, F1e5), from_btc_per_kvb(FDiv(rate0, F1e5)))
  \/ DefaultMinRelayFee
  \/ Default
  \/ AsSatPerVb
  \/ SatPerKwu

SpecUnits == InitUnits /\ [][NextUnits]_vars

----------------------------------------------------------------------------
(* Utxo accessors: the client holds one Utxo and calls its accessors. *)

MaxTxid == 2
MaxVout == 2
MaxOutputs == 2
MaxValue == 2

TxOuts == {TxOut(v) : v \in 1..MaxValue}
Transactions == {Transaction(o) : o \in UNION {[1..n -> TxOuts] : n \in 0..MaxOutputs}}
OutPoints == {OutPoint(t, v) : t \in 1..MaxTxid, v \in 0..MaxVout}
Option(S) == {None} \cup {Some(x) : x \in S}

Utxos ==
  {Local(o, t, k, sp) :
     o \in OutPoints, t \in TxOuts, k \in {"External", "Internal"}, sp \in BOOLEAN}
  \cup
  {Foreign(o, nw, w) :
     o \in OutPoints, nw \in Option(Transactions), w \in Option(TxOuts)}

InitUtxo ==
  /\ pc = "run"
  /\ a = default
  /\ b = default
  /\ asub = FALSE
  /\ bsub = FALSE
  /\ nsub = 0
  /\ call = NoCall
  /\ ret = NoCall
  /\ rate0 = F1
  /\ utxo \in Utxos
  /\ ta = None
  /\ tb = None
  /\ tc = None
  /\ unconfirmed_first = FALSE

\* utxo.outpoint()
Outpoint ==
  /\ pc = "run"
  /\ call' = [op |-> "outpoint"]
  /\ ret' = outpoint(utxo)
  /\ UNCHANGED <<pc, a, b, asub, bsub, nsub, rate0, utxo, ta, tb, tc, unconfirmed_first>>

\* utxo.txout(): the TxOut, or a panic that returns nothing.
Txout ==
  /\ pc = "run"
  /\ call' = [op |-> "txout"]
  /\ ret' = IF txout(utxo).ok THEN txout(utxo).value ELSE NoCall
  /\ pc' = IF txout(utxo).ok THEN "run" ELSE "aborted"
  /\ UNCHANGED <<a, b, asub, bsub, nsub, rate0, utxo, ta, tb, tc, unconfirmed_first>>

NextUtxo ==
  \/ Outpoint
  \/ Txout

SpecUtxo == InitUtxo /\ [][NextUtxo]_vars

----------------------------------------------------------------------------
(* Ordering: the client holds three TransactionDetails and compares the    *)
(* first two.                                                              *)

MaxHeight == 2

ConfirmationTimes ==
  {Unconfirmed} \cup {Confirmed(h, t) : h \in 1..MaxHeight, t \in {10, 20}}

\* The fields that are neither txid nor confirmation_time.
OtherFields ==
  [transaction : Option({Transaction(<<TxOut(1)>>)}), received : 0..1,
   sent : 0..1, fee : Option({0})]

\* A record as first extracted, and one with every amount known.
HeldFields ==
  { [transaction |-> None, received |-> 0, sent |-> 0, fee |-> None],
    [transaction |-> Some(Transaction(<<TxOut(1)>>)), received |-> 1,
     sent |-> 1, fee |-> Some(0)] }

Details(d, txid, ct) ==
  TransactionDetails(d.transaction, txid, d.received, d.sent, d.fee, ct)

TxDetails ==
  {Details(d, t, ct) : d \in HeldFields, t \in 1..MaxTxid, ct \in ConfirmationTimes}

InitTx ==
  /\ pc = "run"
  /\ a = default
  /\ b = default
  /\ asub = FALSE
  /\ bsub = FALSE
  /\ nsub = 0
  /\ call = NoCall
  /\ ret = NoCall
  /\ rate0 = F1
  /\ utxo = None
  /\ ta \in TxDetails
  /\ tb \in TxDetails
  /\ tc \in TxDetails
  /\ unconfirmed_first \in BOOLEAN

\* ta.cmp(&tb)
Cmp ==
  /\ pc = "run"
  /\ call' = [op |-> "cmp"]
  /\ ret' = cmp(ta, tb, unconfirmed_first)
  /\ UNCHANGED <<pc, a, b, asub, bsub, nsub, rate0, utxo, ta, tb, tc, unconfirmed_first>>

\* ta.partial_cmp(&tb)
PartialCmp ==
  /\ pc = "run"
  /\ call' = [op |-> "partial_cmp"]
  /\ ret' = partial_cmp(ta, tb, unconfirmed_first)
  /\ UNCHANGED <<pc, a, b, asub, bsub, nsub, rate0, utxo, ta, tb, tc, unconfirmed_first>>

NextTx ==
  \/ Cmp
  \/ PartialCmp

SpecTx == InitTx /\ [][NextTx]_vars

----------------------------------------------------------------------------
(* What the claims say of a rate *)

\* Positive zero or a positive normal number.
ValidRate(v) == v = Zero(0) \/ (v.s = 0 /\ v.e \in 1..254)

\* Negative (negative zero included), NaN, infinite or a non-zero subnormal.
InvalidRate(v) == v.s = 1 \/ IsNaN(v) \/ IsInf(v) \/ IsSubnormal(v)

\* x < y of IEEE-754
Key(x) == IF x.s = 0 THEN x.e * Hidden + x.f ELSE -(x.e * Hidden + x.f)
FLt(x, y) == ~IsNaN(x) /\ ~IsNaN(y) /\ Key(x) < Key(y)

\* The integer ceiling of wu / 4.
CeilDiv4(wu) == (wu + 3) \div 4

Constructors ==
  { "from_sat_per_vb", "from_sat_per_kwu", "from_sat_per_kvb",
    "from_btc_per_kvb", "from_vb", "from_wu" }

\* The rate the call c derives from its arguments, by the unit conversions
\* of the specification.
DerivedRate(c) ==
  CASE c.op = "from_sat_per_vb" -> c.x
    [] c.op = "from_sat_per_kwu" -> FDiv(c.x, F250)
    [] c.op = "from_sat_per_kvb" -> FDiv(c.x, F1000)
    [] c.op = "from_btc_per_kvb" -> FMul(c.x, F1e5)
    [] c.op = "from_vb" -> FDiv(FromU64(c.fee), FromUsize(c.size))
    [] c.op = "from_wu" -> FDiv(FromU64(c.fee), FromUsize(CeilDiv4(c.size)))

\* C1: a validating constructor aborts when the rate it derives is negative,
\* negative zero, NaN, infinite or a non-zero subnormal, and returns a
\* FeeRate holding the rate when it is positive zero or positive normal;
\* from_vb and from_wu with a size of 0 abort.
C1_AbortIffInvalid ==
  call.op \in Constructors =>
    /\ InvalidRate(DerivedRate(call)) => pc = "aborted"
    /\ ValidRate(DerivedRate(call)) => pc = "run" /\ a = DerivedRate(call)
    /\ call.op \in {"from_vb", "from_wu"} /\ call.size = 0 => pc = "aborted"

C1_Witness ==
  /\ call.op = "from_vb"
  /\ call.size = 0
  /\ IsInf(DerivedRate(call))
  /\ pc = "aborted"

\* C2 as claimed: every FeeRate the client can hold, results of subtraction
\* included, is positive zero or a positive normal number.
C2_AllRatesValid == ValidRate(a) /\ ValidRate(b)

\* C2 as amended: every FeeRate that comes from a constructor,
\* default_min_relay_fee or default (and not from a subtraction) is positive
\* zero or a positive normal number.
C2_ConstructedRatesValid ==
  /\ ~asub => ValidRate(a)
  /\ ~bsub => ValidRate(b)

C2_Witness ==
  /\ call.op = "from_sat_per_kwu"
  /\ pc = "run"
  /\ ~asub
  /\ ~bsub
  /\ a # default
  /\ b # default
  /\ a # b

\* C9 as claimed: a - b never aborts, holds a.value - b.value unvalidated,
\* is negative when b is larger than a and zero when a equals b, and leaves
\* the operands as they were.
C9_SubUnvalidated ==
  call.op = "sub" =>
    /\ pc = "run"
    /\ a = FSub(call.lhs, call.rhs)
    /\ b = call.rhs
    /\ FLt(call.lhs, call.rhs) => a.s = 1 /\ ~IsNaN(a) /\ ~IsZero(a)
    /\ FEq(call.lhs, call.rhs) => IsZero(a)

\* C9 as amended: the same, the result being zero when a equals b and both
\* are finite (the difference of two equal infinities is NaN).
C9_SubUnvalidatedFinite ==
  call.op = "sub" =>
    /\ pc = "run"
    /\ a = FSub(call.lhs, call.rhs)
    /\ b = call.rhs
    /\ FLt(call.lhs, call.rhs) => a.s = 1 /\ ~IsNaN(a) /\ ~IsZero(a)
    /\ FEq(call.lhs, call.rhs) /\ IsFinite(call.lhs) => IsZero(a)

C9_Witness ==
  /\ call.op = "sub"
  /\ FLt(call.lhs, call.rhs)
  /\ InvalidRate(a)
  /\ pc = "run"

\* C3: vbytes(wu) is the integer ceiling of wu / 4, for every weight, the
\* weights that f32 cannot hold exactly included.
C3_VbytesIsCeiling ==
  call.op = "vbytes" =>
    /\ 4 * ret >= call.size
    /\ 4 * (ret - 1) < call.size

\* C4: fee_wu(wu) equals fee_vb(ceil(wu / 4)), and from_wu(fee, wu) has the
\* outcome of from_vb(fee, ceil(wu / 4)): both abort or both return the
\* same rate.
C4_WeightIsCeilVbytes ==
  /\ call.op = "fee_wu" => ret = fee_vb(a, CeilDiv4(call.size))
  /\ call.op = "from_wu" =>
       /\ (pc = "run") = from_vb(call.fee, CeilDiv4(call.size)).ok
       /\ pc = "run" => a = from_vb(call.fee, CeilDiv4(call.size)).value

\* A finite rate as an odd significand times a power of two.
RECURSIVE TrailingZeros(_)
TrailingZeros(n) == IF n = 0 \/ n % 2 = 1 THEN 0 ELSE 1 + TrailingZeros(n \div 2)
OddSig(x) == Sig(x) \div Pow2(TrailingZeros(Sig(x)))
OddExp(x) == IF Sig(x) = 0 THEN 0 ELSE Exp(x) + TrailingZeros(Sig(x))

\* The product rate * vb and its ceiling can be computed below 2^31.
SmallProduct(x, vb) ==
  /\ OddExp(x) \in -30..0
  /\ vb <= Pow2(29) \div (OddSig(x) + 1)

\* The least integer not below the real number rate * vb.
ExactCeil(x, vb) ==
  (OddSig(x) * vb + Pow2(-OddExp(x)) - 1) \div Pow2(-OddExp(x))

\* C5: fee_vb(vbytes) is the least unsigned integer not below the product
\* rate * vbytes: the fee is never rounded down.
C5_FeeIsCeiling ==
  call.op = "fee_vb" /\ SmallProduct(a, call.size) =>
    ret = U64Of(ExactCeil(a, call.size))

\* Distance in units in the last place between two finite numbers.
UlpDist(x, y) == IF Key(x) < Key(y) THEN Key(y) - Key(x) ELSE Key(x) - Key(y)

UnitConstructors ==
  {"from_sat_per_vb", "from_sat_per_kwu", "from_sat_per_kvb", "from_btc_per_kvb"}

\* C6 as claimed: rate0 given in any of the four units yields a FeeRate
\* whose as_sat_per_vb() is rate0 and whose sat_per_kwu() is 250 * rate0;
\* for rate0 = 1 it is the default, 1.0 sat/vbyte and 250.0 sat/kwu.
C6_UnitsAgree ==
  call.op \in UnitConstructors /\ ValidRate(rate0) =>
    /\ pc = "run"
    /\ as_sat_per_vb(a) = rate0
    /\ sat_per_kwu(a) = FMul(F250, rate0)
    /\ rate0 = F1 =>
         /\ a = default_min_relay_fee
         /\ a = default
         /\ sat_per_kwu(a) = F250

\* C6 as amended: for rate0 = 1 the four constructors yield exactly the
\* default, 1.0 sat/vbyte and 250.0 sat/kwu; from_sat_per_vb(rate0) holds
\* rate0 itself; the other three, given a normal number, either abort (the
\* product overflowed) or hold a rate within one unit in the last place of
\* rate0.
C6_UnitsAgreeRounded ==
  call.op \in UnitConstructors /\ ValidRate(rate0) =>
    /\ rate0 = F1 =>
         /\ pc = "run"
         /\ a = default_min_relay_fee
         /\ a = default
         /\ as_sat_per_vb(a) = F1
         /\ sat_per_kwu(a) = F250
    /\ call.op = "from_sat_per_vb" =>
         /\ pc = "run"
         /\ as_sat_per_vb(a) = rate0
         /\ sat_per_kwu(a) = FMul(F250, rate0)
    /\ pc = "run" /\ is_normal(call.x) => UlpDist(as_sat_per_vb(a), rate0) <= 1
    /\ pc = "aborted" /\ is_normal(call.x) => rate0 = FMax

C6_Witness ==
  /\ call.op = "from_btc_per_kvb"
  /\ rate0 = F1
  /\ pc = "run"
  /\ ret = [op |-> "sat_per_kwu", value |-> F250]

\* C7 as claimed: txout() returns the stored txout for Local; for Foreign
\* with non_witness_utxo present it returns that transaction's output at
\* index outpoint.vout, whatever witness_utxo is; otherwise the witness_utxo
\* if present; it aborts when neither is present.  outpoint() returns the
\* stored outpoint.
C7_TxoutPrecedence ==
  /\ call.op = "outpoint" =>
       /\ pc = "run"
       /\ utxo.variant = "Local" => ret = utxo.local.outpoint
       /\ utxo.variant = "Foreign" => ret = utxo.outpoint
  /\ call.op = "txout" /\ utxo.variant = "Local" =>
       pc = "run" /\ ret = utxo.local.txout
  /\ call.op = "txout" /\ utxo.variant = "Foreign" =>
       LET nw == utxo.psbt_input.non_witness_utxo
           w == utxo.psbt_input.witness_utxo
       IN  /\ nw # None =>
                /\ pc = "run"
                /\ utxo.outpoint.vout < Len(nw[1].output)
                /\ ret = nw[1].output[utxo.outpoint.vout + 1]
           /\ nw = None /\ w # None => pc = "run" /\ ret = w[1]
           /\ nw = None /\ w = None => pc = "aborted" /\ ret = NoCall

\* C7 as amended: the same, except that with non_witness_utxo present the
\* call returns the output at index outpoint.vout when the transaction has
\* one, and aborts when it has none, even if witness_utxo is present.
C7_TxoutPrecedenceInRange ==
  /\ call.op = "outpoint" =>
       /\ pc = "run"
       /\ utxo.variant = "Local" => ret = utxo.local.outpoint
       /\ utxo.variant = "Foreign" => ret = utxo.outpoint
  /\ call.op = "txout" /\ utxo.variant = "Local" =>
       pc = "run" /\ ret = utxo.local.txout
  /\ call.op = "txout" /\ utxo.variant = "Foreign" =>
       LET nw == utxo.psbt_input.non_witness_utxo
           w == utxo.psbt_input.witness_utxo
       IN  /\ nw # None /\ utxo.outpoint.vout < Len(nw[1].output) =>
                /\ pc = "run"
                /\ ret = nw[1].output[utxo.outpoint.vout + 1]
           /\ nw # None /\ utxo.outpoint.vout >= Len(nw[1].output) =>
                pc = "aborted" /\ ret = NoCall
           /\ nw = None /\ w # None => pc = "run" /\ ret = w[1]
           /\ nw = None /\ w = None => pc = "aborted" /\ ret = NoCall

C7_Witness ==
  /\ call.op = "txout"
  /\ utxo.variant = "Foreign"
  /\ utxo.psbt_input.non_witness_utxo # None
  /\ utxo.psbt_input.witness_utxo # None
  /\ pc = "run"
  /\ utxo.outpoint.vout = 1
  /\ ret # utxo.psbt_input.witness_utxo[1]

\* The lexicographic order on (confirmation_time, txid) the claim describes.
Before(x, y) ==
  \/ CtCmp(x.confirmation_time, y.confirmation_time, unconfirmed_first) = "Less"
  \/ /\ CtCmp(x.confirmation_time, y.confirmation_time, unconfirmed_first) = "Equal"
     /\ x.txid < y.txid

Lexicographic(x, y) ==
  IF Before(x, y) THEN "Less" ELSE IF Before(y, x) THEN "Greater" ELSE "Equal"

\* C8: cmp is the lexicographic order on (confirmation_time, txid); the
\* fields transaction, received, sent and fee never change the result; the
\* order is transitive on every triple; partial_cmp is Some of cmp; of two
\* records confirmed at the same position the smaller txid sorts first.
C8_LexicographicOrder ==
  /\ call.op = "cmp" =>
       /\ ret = Lexicographic(ta, tb)
       /\ \A d \in OtherFields :
            /\ cmp(Details(d, ta.txid, ta.confirmation_time), tb,
                   unconfirmed_first) = ret
            /\ cmp(ta, Details(d, tb.txid, tb.confirmation_time),
                   unconfirmed_first) = ret
       /\ ta.confirmation_time = tb.confirmation_time /\ ta.txid < tb.txid =>
            ret = "Less"
       /\ ret = "Less" /\ cmp(tb, tc, unconfirmed_first) = "Less" =>
            cmp(ta, tc, unconfirmed_first) = "Less"
       /\ ret # "Greater" /\ cmp(tb, tc, unconfirmed_first) # "Greater" =>
            cmp(ta, tc, unconfirmed_first) # "Greater"
  /\ call.op = "partial_cmp" =>
       /\ ret = Some(Lexicographic(ta, tb))
       /\ ret = Some(cmp(ta, tb, unconfirmed_first))

C8_Witness ==
  /\ call.op = "cmp"
  /\ ta.confirmation_time = Confirmed(1, 10)
  /\ tb.confirmation_time = Confirmed(1, 10)
  /\ tc.confirmation_time = Unconfirmed
  /\ ta.txid < tb.txid
  /\ ta.fee # tb.fee
  /\ ret = "Less"
  /\ cmp(tb, tc, unconfirmed_first) = "Less"

\* C10: cmp(a, b) is Equal if and only if a == b under the derived
\* field-by-field equality.
C10_EqualIffEq ==
  call.op = "cmp" => ((ret = "Equal") <=> eq(ta, tb))

=============================================================================
